---- MODULE Spec2Model ----
(***************************************************************************)
(* Multi-room chat backend: conversations, participant rosters and         *)
(* messages with single-level reply references.  The persistent store is   *)
(* the only shared state; every HTTP request is a process whose steps are  *)
(* the database statements it awaits, so requests interleave between       *)
(* statements.                                                             *)
(***************************************************************************)
EXTENDS Integers, Sequences, FiniteSets, TLC

\* ---------------------------------------------------------------- bounds
NumUsers == 2          \* registered users 1..NumUsers
MaxConvs == 2          \* conversation ids handed out by the sequence
MaxMsgs == 3           \* message ids handed out by the sequence
MaxIds == 2            \* longest participantIds list of a create request
MaxRequests == 3       \* requests started in one behaviour
NumSlots == 2          \* requests in flight at the same time
MaxPage == 2           \* largest page a list request asks for
MaxLimit == 2          \* largest page size a list request asks for
MaxAccounts == 3       \* user ids handed out, the registered users included
MaxTokens == 4         \* access token ids handed out

Users == 1 .. NumUsers
\* ids a client may send: the registered users and one id that resolves to nobody
UserIdInputs == 1 .. (NumUsers + 1)
ConvIds == 1 .. MaxConvs
MsgIds == 1 .. MaxMsgs
Slots == 1 .. NumSlots
\* ids a client may present as its bearer token, issued or not
TokenIds == 1 .. MaxTokens

NULL == 0
NoText == "NULL"
Absent == "absent"
\* what a client may send as a new message or a conversation name, and as an edit
NewTexts == {"hello"}
EditTexts == {"edit"}
Times == {1}

VARIABLES
    conversations,   \* conversations table: id -> [createdBy, name, description]
    participants,    \* conversation_participants table: set of rows
    messages,        \* messages table: id -> row
    convSeq,         \* last id of conversations.id
    msgSeq,          \* last id of messages.id
    req,             \* per slot: the request in flight, or the last response
    started,         \* number of requests started so far
    users,           \* users table: id -> [email, password, fullName]
    tokens,          \* auth_access_tokens table: set of rows
    tokenSeq         \* last id of auth_access_tokens.id

vars == <<conversations, participants, messages, convSeq, msgSeq, req, started,
          users, tokens, tokenSeq>>
db == <<conversations, participants, messages, convSeq, msgSeq>>
auth == <<users, tokens, tokenSeq>>

\* ------------------------------------------------------------ JS values
\* A route parameter reaches the controller as a string; a column read
\* from the database and a validated vine.number() are numbers.
RouteParam(n) == [t |-> "string", v |-> n]
JsNumber(n) == [t |-> "number", v |-> n]
\* JavaScript === : no coercion, type and value both compared
StrictEq(a, b) == a.t = b.t /\ a.v = b.v

\* ------------------------------------------------------------ the store
ParticipantRows(c, u) == {p \in participants : p.conversationId = c /\ p.userId = u}

\* unique(['conversation_id', 'user_id'])
UniqueDropped(rows, c, u) == TRUE
UniquePair(rows, c, u) == ~ \E p \in rows : p.conversationId = c /\ p.userId = u

\* the constraints an INSERT INTO conversation_participants must satisfy
ParticipantInsertable(convs, rows, c, u) ==
    /\ c \in DOMAIN convs
    /\ u \in Users
    /\ UniquePair(rows, c, u)

\* ON DELETE SET NULL of messages.reply_to_id
ClearReplies(msgs, gone) ==
    [m \in DOMAIN msgs |->
        IF msgs[m].replyToId \in gone THEN [msgs[m] EXCEPT !.replyToId = NULL] ELSE msgs[m]]

Restrict(f, S) == [x \in S |-> f[x]]

\* DELETE FROM messages WHERE id IN gone
DeleteMessages(msgs, gone) == ClearReplies(Restrict(msgs, DOMAIN msgs \ gone), gone)

\* DELETE FROM conversations WHERE id = c, with its ON DELETE CASCADE children
MessagesOf(msgs, c) == {m \in DOMAIN msgs : msgs[m].conversationId = c}

MessageInsertableUnchecked(c, u, r) ==
    /\ u \in Users
    /\ r = NULL \/ r \in DOMAIN messages

\* the constraints an INSERT INTO messages must satisfy
MessageInsertable(c, u, r) ==
    /\ c \in DOMAIN conversations
    /\ u \in Users
    /\ r = NULL \/ r \in DOMAIN messages

\* -------------------------------------------------- authorization service
isParticipantAlways(conversationId, userId) == TRUE
isParticipant(conversationId, userId) == ParticipantRows(conversationId, userId) # {}

isCreatorAny(conversationId, userId) == conversationId \in DOMAIN conversations
isCreatorOnRoster(conversationId, userId) ==
    /\ conversationId \in DOMAIN conversations
    /\ StrictEq(JsNumber(conversations[conversationId].createdBy), JsNumber(userId))
    /\ isParticipant(conversationId, userId)
isCreator(conversationId, userId) ==
    /\ conversationId \in DOMAIN conversations
    /\ StrictEq(JsNumber(conversations[conversationId].createdBy), JsNumber(userId))

\* ------------------------------------------------------------- requests
Idle ==
    [op |-> "none", pc |-> "done", user |-> NULL, conv |-> NULL, target |-> NULL,
     msg |-> NULL, text |-> NoText, desc |-> NoText, ids |-> <<>>, reply |-> NULL,
     row |-> NULL, oldName |-> NoText, oldDesc |-> NoText, status |-> 0, message |-> "",
     list |-> << >>, page |-> NULL, limit |-> NULL, token |-> NULL, issued |-> NULL]

\* a request takes the first slot that is free: the slots are only names
CanStart(s) ==
    /\ req[s].pc = "done"
    /\ \A t \in Slots : t < s => req[t].pc # "done"
    /\ started < MaxRequests

Start(s, r) ==
    /\ req' = [req EXCEPT ![s] = r]
    /\ started' = started + 1

\* the handler returns: its locals are gone, the request line and the response stay
Done(r, code, text) ==
    [Idle EXCEPT !.op = r.op, !.user = r.user, !.conv = r.conv, !.target = r.target,
                 !.msg = r.msg, !.reply = r.reply, !.token = r.token, !.status = code,
                 !.message = text]

Respond(s, code, text) == req' = [req EXCEPT ![s] = Done(@, code, text)]

Goto(s, label) == req' = [req EXCEPT ![s] = [@ EXCEPT !.pc = label]]

At(s, op, label) == req[s].op = op /\ req[s].pc = label

NotParticipantText == "You are not a participant in this conversation"

\* e-mail addresses: the caps flag stands for the spellings that differ from
\* the normalised one
UserEmail(n) == [kind |-> "user", n |-> n, caps |-> FALSE]
GuestEmail(n) == [kind |-> "guest", n |-> n, caps |-> FALSE]
\* vine.string().email().normalizeEmail()
normalizeEmail(e) == [e EXCEPT !.caps = FALSE]

LongPassword == "longsecret"
ShortPassword == "short"
OtherPassword == "wrongsecret"

\* User.accessTokens.create(user, abilities, options): the row it inserts
TokenRow(i, u, abilities, expiresIn) ==
    [id |-> i, userId |-> u, abilities |-> abilities, expiresIn |-> expiresIn]

\* the users 1..NumUsers have registered, and each holds the token of its
\* registration: the callers of the handlers are these users
SignedUp ==
    /\ users = [u \in Users |->
                  [email |-> UserEmail(u), password |-> LongPassword, fullName |-> NoText]]
    /\ tokens = {TokenRow(u, u, <<"*">>, NULL) : u \in Users}
    /\ tokenSeq = NumUsers

Init ==
    /\ SignedUp
    /\ conversations = << >>
    /\ participants = {}
    /\ messages = << >>
    /\ convSeq = 0
    /\ msgSeq = 0
    /\ req = [s \in Slots |-> Idle]
    /\ started = 0

\* conversation_participants.id: a fresh key, never one a request still holds
HeldRowIds == {p.id : p \in participants} \cup {req[s].row : s \in Slots}

\* the k-th key not held
NewRowId(k) ==
    CHOOSE i \in 1 .. (Cardinality(HeldRowIds) + k) :
        /\ i \notin HeldRowIds
        /\ Cardinality({j \in 1 .. i : j \notin HeldRowIds}) = k

NewRow(c, u, i) == [id |-> i, conversationId |-> c, userId |-> u]

\* ------------------------------------------------ ConversationController
\* created_at is taken when the row is inserted: a conversation created later
\* has the larger id, and ORDER BY created_at DESC lists the larger id first
RECURSIVE NewestFirst(_)
NewestFirst(ids) ==
    IF ids = {}
    THEN << >>
    ELSE LET newest == CHOOSE i \in ids : \A j \in ids : j <= i
         IN <<newest>> \o NewestFirst(ids \ {newest})

ConvIndexAll(s) ==
    \E u \in Users :
        /\ CanStart(s)
        /\ LET r == [Idle EXCEPT !.op = "convIndex", !.user = u]
           IN Start(s, [Done(r, 200, "") EXCEPT !.list = NewestFirst(DOMAIN conversations)])
        /\ UNCHANGED <<db, auth>>

\* index: the conversations that have a participants row of the caller
ConvIndex(s) ==
    \E u \in Users :
        /\ CanStart(s)
        /\ LET r == [Idle EXCEPT !.op = "convIndex", !.user = u]
               mine == {c \in DOMAIN conversations : ParticipantRows(c, u) # {}}
           IN Start(s, [Done(r, 200, "") EXCEPT !.list = NewestFirst(mine)])
        /\ UNCHANGED <<db, auth>>

ParticipantIdLists == UNION {[1 .. n -> UserIdInputs] : n \in 1 .. MaxIds}

Filter(list, u) == SelectSeq(list, LAMBDA id : id # u)

Range(list) == {list[i] : i \in 1 .. Len(list)}

\* store, up to the first statement: INSERT INTO conversations
ConvStoreCreate(s) ==
    \E u \in Users, ids \in ParticipantIdLists, name \in NewTexts \cup {NoText},
       description \in NewTexts \cup {NoText} :
        /\ CanStart(s)
        /\ convSeq < MaxConvs
        /\ convSeq' = convSeq + 1
        /\ conversations' = (convSeq' :> [createdBy |-> u, name |-> name,
                                            description |-> description]) @@ conversations
        /\ Start(s, [Idle EXCEPT !.op = "convStore", !.pc = "creator", !.user = u,
                                  !.conv = convSeq', !.ids = ids, !.text = name,
                                  !.desc = description])
        /\ UNCHANGED <<participants, messages, msgSeq, auth>>

\* store: INSERT the creator's row, then filter the requested ids
ConvStoreCreator(s) ==
    /\ At(s, "convStore", "creator")
    /\ LET r == req[s]
           others == Filter(r.ids, r.user)
       IN IF ParticipantInsertable(conversations, participants, r.conv, r.user)
          THEN /\ participants' = participants \cup {NewRow(r.conv, r.user, NewRowId(1))}
               /\ IF Len(others) > 0 THEN Goto(s, "verify") ELSE Respond(s, 201, "")
          ELSE /\ Respond(s, 500, "")
               /\ UNCHANGED participants
    /\ UNCHANGED <<conversations, messages, convSeq, msgSeq, started, auth>>

ConvStoreVerifySkipped(s) ==
    /\ At(s, "convStore", "verify")
    /\ Goto(s, "others")
    /\ UNCHANGED <<db, started, auth>>

\* store: SELECT users WHERE id IN (...) and compare the two lengths
ConvStoreVerify(s) ==
    /\ At(s, "convStore", "verify")
    /\ LET others == Filter(req[s].ids, req[s].user)
           found == Range(others) \cap Users
       IN IF Cardinality(found) # Len(others)
          THEN Respond(s, 400, "One or more participant IDs are invalid")
          ELSE Goto(s, "others")
    /\ UNCHANGED <<db, started, auth>>

\* store: createMany, its inserts inside one transaction
ConvStoreOthers(s) ==
    /\ At(s, "convStore", "others")
    /\ LET r == req[s]
           others == Filter(r.ids, r.user)
           n == Len(others)
           ok == /\ \A i \in 1 .. n :
                        ParticipantInsertable(conversations, participants, r.conv, others[i])
                 /\ \A i, j \in 1 .. n : i # j => others[i] # others[j]
       IN IF ok
          THEN /\ participants' = participants \cup
                        {NewRow(r.conv, others[i], NewRowId(i)) : i \in 1 .. n}
               /\ Respond(s, 201, "")
          ELSE /\ Respond(s, 500, "")
               /\ UNCHANGED participants
    /\ UNCHANGED <<conversations, messages, convSeq, msgSeq, started, auth>>

ConvStore(s) ==
    \/ ConvStoreCreate(s)
    \/ ConvStoreCreator(s)
    \/ ConvStoreVerify(s)
    \/ ConvStoreOthers(s)

ConvShowFindMemberFirst(s) ==
    \E u \in Users, c \in ConvIds :
        /\ CanStart(s)
        /\ LET r == [Idle EXCEPT !.op = "convShow", !.user = u, !.conv = c]
           IN IF ~ isParticipant(c, u)
              THEN Start(s, Done(r, 403, NotParticipantText))
              ELSE Start(s, [r EXCEPT !.pc = "member"])
        /\ UNCHANGED <<db, auth>>

\* show: getConversationForUser, existence first, membership second
ConvShowFind(s) ==
    \E u \in Users, c \in ConvIds :
        /\ CanStart(s)
        /\ LET r == [Idle EXCEPT !.op = "convShow", !.user = u, !.conv = c]
           IN IF c \in DOMAIN conversations
              THEN Start(s, [r EXCEPT !.pc = "member"])
              ELSE Start(s, Done(r, 404, "Conversation not found"))
        /\ UNCHANGED <<db, auth>>

ConvShowMember(s) ==
    /\ At(s, "convShow", "member")
    /\ IF isParticipant(req[s].conv, req[s].user)
       THEN Respond(s, 200, "")
       ELSE Respond(s, 403, NotParticipantText)
    /\ UNCHANGED <<db, started, auth>>

ConvShow(s) == ConvShowFind(s) \/ ConvShowMember(s)

\* update: ensureCreator
ConvUpdateGate(s) ==
    \E u \in Users, c \in ConvIds, name \in EditTexts \cup {Absent},
       description \in EditTexts \cup {Absent} :
        /\ CanStart(s)
        /\ LET r == [Idle EXCEPT !.op = "convUpdate", !.user = u, !.conv = c,
                                  !.text = name, !.desc = description]
           IN IF isCreator(c, u)
              THEN Start(s, [r EXCEPT !.pc = "find"])
              ELSE Start(s, Done(r, 403, "Only the creator can update this conversation"))
        /\ UNCHANGED <<db, auth>>

\* update: findOrFail, then merge(payload) on the loaded row
ConvUpdateFind(s) ==
    /\ At(s, "convUpdate", "find")
    /\ LET c == req[s].conv
       IN IF c \in DOMAIN conversations
          THEN req' = [req EXCEPT ![s] = [@ EXCEPT !.pc = "save",
                                                   !.oldName = conversations[c].name,
                                                   !.oldDesc = conversations[c].description]]
          ELSE Respond(s, 404, "Resource not found")
    /\ UNCHANGED <<db, started, auth>>

\* update: save() writes the columns that differ from the loaded row
ConvUpdateSave(s) ==
    /\ At(s, "convUpdate", "save")
    /\ LET r == req[s]
           c == r.conv
           nameDirty == r.text # Absent /\ r.text # r.oldName
           descDirty == r.desc # Absent /\ r.desc # r.oldDesc
       IN /\ conversations' =
                IF c \in DOMAIN conversations
                THEN [conversations EXCEPT
                        ![c].name = IF nameDirty THEN r.text ELSE @,
                        ![c].description = IF descDirty THEN r.desc ELSE @]
                ELSE conversations
          /\ Respond(s, 200, "")
    /\ UNCHANGED <<participants, messages, convSeq, msgSeq, started, auth>>

ConvUpdate(s) == ConvUpdateGate(s) \/ ConvUpdateFind(s) \/ ConvUpdateSave(s)

\* destroy: ensureCreator
ConvDestroyGate(s) ==
    \E u \in Users, c \in ConvIds :
        /\ CanStart(s)
        /\ LET r == [Idle EXCEPT !.op = "convDestroy", !.user = u, !.conv = c]
           IN IF isCreator(c, u)
              THEN Start(s, [r EXCEPT !.pc = "find"])
              ELSE Start(s, Done(r, 403, "Only the creator can delete this conversation"))
        /\ UNCHANGED <<db, auth>>

ConvDestroyFind(s) ==
    /\ At(s, "convDestroy", "find")
    /\ IF req[s].conv \in DOMAIN conversations
       THEN Goto(s, "delete")
       ELSE Respond(s, 404, "Resource not found")
    /\ UNCHANGED <<db, started, auth>>

ConvDestroyDeleteRowOnly(s) ==
    /\ At(s, "convDestroy", "delete")
    /\ LET c == req[s].conv
       IN IF c \in DOMAIN conversations
          THEN /\ conversations' = Restrict(conversations, DOMAIN conversations \ {c})
               /\ participants' = {p \in participants : p.conversationId # c}
               /\ messages' = messages
          ELSE UNCHANGED <<conversations, participants, messages>>
    /\ Respond(s, 204, "")
    /\ UNCHANGED <<convSeq, msgSeq, started, auth>>

\* destroy: DELETE FROM conversations, cascading to the roster and the messages
ConvDestroyDelete(s) ==
    /\ At(s, "convDestroy", "delete")
    /\ LET c == req[s].conv
       IN IF c \in DOMAIN conversations
          THEN /\ conversations' = Restrict(conversations, DOMAIN conversations \ {c})
               /\ participants' = {p \in participants : p.conversationId # c}
               /\ messages' = DeleteMessages(messages, MessagesOf(messages, c))
          ELSE UNCHANGED <<conversations, participants, messages>>
    /\ Respond(s, 204, "")
    /\ UNCHANGED <<convSeq, msgSeq, started, auth>>

ConvDestroy(s) == ConvDestroyGate(s) \/ ConvDestroyFind(s) \/ ConvDestroyDelete(s)

\* addParticipant: ensureParticipant on the caller
AddParticipantGate(s) ==
    \E u \in Users, c \in ConvIds, t \in UserIdInputs :
        /\ CanStart(s)
        /\ LET r == [Idle EXCEPT !.op = "addParticipant", !.user = u, !.conv = c,
                                  !.target = t]
           IN IF isParticipant(c, u)
              THEN Start(s, [r EXCEPT !.pc = "existing"])
              ELSE Start(s, Done(r, 403, NotParticipantText))
        /\ UNCHANGED <<db, auth>>

AddParticipantExistingSkipped(s) ==
    /\ At(s, "addParticipant", "existing")
    /\ Goto(s, "user")
    /\ UNCHANGED <<db, started, auth>>

\* addParticipant: is the target already on the roster
AddParticipantExisting(s) ==
    /\ At(s, "addParticipant", "existing")
    /\ IF ParticipantRows(req[s].conv, req[s].target) # {}
       THEN Respond(s, 400, "User is already a participant")
       ELSE Goto(s, "user")
    /\ UNCHANGED <<db, started, auth>>

\* addParticipant: User.find
AddParticipantUser(s) ==
    /\ At(s, "addParticipant", "user")
    /\ IF req[s].target \in Users
       THEN Goto(s, "insert")
       ELSE Respond(s, 404, "User not found")
    /\ UNCHANGED <<db, started, auth>>

\* addParticipant: INSERT; a constraint violation is not caught by the handler
AddParticipantInsert(s) ==
    /\ At(s, "addParticipant", "insert")
    /\ LET r == req[s]
       IN IF ParticipantInsertable(conversations, participants, r.conv, r.target)
          THEN /\ participants' = participants \cup {NewRow(r.conv, r.target, NewRowId(1))}
               /\ Respond(s, 200, "Participant added successfully")
          ELSE /\ Respond(s, 500, "")
               /\ UNCHANGED participants
    /\ UNCHANGED <<conversations, messages, convSeq, msgSeq, started, auth>>

AddParticipant(s) ==
    \/ AddParticipantGate(s)
    \/ AddParticipantExisting(s)
    \/ AddParticipantUser(s)
    \/ AddParticipantInsert(s)

\* removeParticipant: ensureParticipant on the caller
RemoveParticipantGate(s) ==
    \E u \in Users, c \in ConvIds, t \in UserIdInputs :
        /\ CanStart(s)
        /\ LET r == [Idle EXCEPT !.op = "removeParticipant", !.user = u, !.conv = c,
                                  !.target = t]
           IN IF isParticipant(c, u)
              THEN Start(s, [r EXCEPT !.pc = "find"])
              ELSE Start(s, Done(r, 403, NotParticipantText))
        /\ UNCHANGED <<db, auth>>

RemoveParticipantFindCreatorKept(s) ==
    /\ At(s, "removeParticipant", "find")
    /\ LET rows == ParticipantRows(req[s].conv, req[s].target)
       IN IF rows = {}
          THEN Respond(s, 404, "Participant not found")
          ELSE IF isCreator(req[s].conv, req[s].target)
               THEN Respond(s, 403, "The creator cannot be removed")
               ELSE \E p \in rows :
                       req' = [req EXCEPT ![s] = [@ EXCEPT !.pc = "delete", !.row = p.id]]
    /\ UNCHANGED <<db, started, auth>>

\* removeParticipant: load the target's row
RemoveParticipantFind(s) ==
    /\ At(s, "removeParticipant", "find")
    /\ LET rows == ParticipantRows(req[s].conv, req[s].target)
       IN IF rows = {}
          THEN Respond(s, 404, "Participant not found")
          ELSE \E p \in rows :
                  req' = [req EXCEPT ![s] = [@ EXCEPT !.pc = "delete", !.row = p.id]]
    /\ UNCHANGED <<db, started, auth>>

RemoveParticipantDeleteSkipped(s) ==
    /\ At(s, "removeParticipant", "delete")
    /\ Respond(s, 200, "Participant removed successfully")
    /\ UNCHANGED <<db, started, auth>>

\* removeParticipant: DELETE the loaded row by its key
RemoveParticipantDelete(s) ==
    /\ At(s, "removeParticipant", "delete")
    /\ participants' = {p \in participants : p.id # req[s].row}
    /\ Respond(s, 200, "Participant removed successfully")
    /\ UNCHANGED <<conversations, messages, convSeq, msgSeq, started, auth>>

RemoveParticipant(s) ==
    \/ RemoveParticipantGate(s)
    \/ RemoveParticipantFind(s)
    \/ RemoveParticipantDelete(s)

\* ----------------------------------------------------- MessageController
NewMessage(c, u, content, r, at) ==
    [conversationId |-> c, userId |-> u, content |-> content, replyToId |-> r,
     editedAt |-> NULL, createdAt |-> at]

\* createdAt is the server's clock, in milliseconds, at the INSERT: a message
\* is stamped no earlier than the latest one in the table, and two inserts
\* within one millisecond are stamped alike
Latest == IF DOMAIN messages = {} THEN 0
          ELSE CHOOSE t \in {messages[m].createdAt : m \in DOMAIN messages} :
                   \A m \in DOMAIN messages : messages[m].createdAt <= t

InsertStamps == {t \in {Latest, Latest + 1} : t > 0}

\* store requests that may still insert: each keeps one id of the sequence free
PendingStores == {s \in Slots : req[s].op = "msgStore" /\ req[s].pc # "done"}

\* request.input('limit', 50)
DefaultLimit == 50
LimitOf(limit) == IF limit = NULL THEN DefaultLimit ELSE limit

\* index: ensureParticipant
MsgIndexGate(s) ==
    \E u \in Users, c \in ConvIds, page \in 1 .. MaxPage, limit \in {NULL} \cup (1 .. MaxLimit) :
        /\ CanStart(s)
        /\ LET r == [Idle EXCEPT !.op = "msgIndex", !.user = u, !.conv = c,
                                  !.page = page, !.limit = limit]
           IN IF isParticipant(c, u)
              THEN Start(s, [r EXCEPT !.pc = "count"])
              ELSE Start(s, Done(r, 403, NotParticipantText))
        /\ UNCHANGED <<db, auth>>

\* the answer of a list request: the page, with the page and limit it was for
Listed(r, list) == [Done(r, 200, "") EXCEPT !.list = list, !.page = r.page, !.limit = r.limit]

\* index: paginate() counts the rows first and selects only if there are any
MsgIndexCount(s) ==
    /\ At(s, "msgIndex", "count")
    /\ IF MessagesOf(messages, req[s].conv) = {}
       THEN req' = [req EXCEPT ![s] = Listed(@, << >>)]
       ELSE Goto(s, "query")
    /\ UNCHANGED <<db, started, auth>>

\* ORDER BY created_at DESC: rows stamped alike come in whatever order the
\* database produces for this one statement
Orderings(ids) ==
    {ord \in [1 .. Cardinality(ids) -> ids] :
        /\ \A i, j \in 1 .. Cardinality(ids) : i # j => ord[i] # ord[j]
        /\ \A i, j \in 1 .. Cardinality(ids) :
              i < j => messages[ord[i]].createdAt >= messages[ord[j]].createdAt}

\* OFFSET (page - 1) * perPage LIMIT perPage
ForPage(ord, page, perPage) ==
    LET offset == (page - 1) * perPage
        last == IF offset + perPage < Len(ord) THEN offset + perPage ELSE Len(ord)
    IN SubSeq(ord, offset + 1, last)

\* index: the SELECT of the page
MsgIndexQuery(s) ==
    /\ At(s, "msgIndex", "query")
    /\ \E ord \in Orderings(MessagesOf(messages, req[s].conv)) :
          req' = [req EXCEPT ![s] = Listed(@, ForPage(ord, req[s].page, LimitOf(req[s].limit)))]
    /\ UNCHANGED <<db, started, auth>>

MsgIndex(s) == MsgIndexGate(s) \/ MsgIndexCount(s) \/ MsgIndexQuery(s)

\* store: ensureParticipant
MsgStoreGate(s) ==
    \E u \in Users, c \in ConvIds, content \in NewTexts, replyToId \in {NULL} \cup MsgIds :
        /\ CanStart(s)
        /\ msgSeq + Cardinality(PendingStores) < MaxMsgs
        /\ LET r == [Idle EXCEPT !.op = "msgStore", !.user = u, !.conv = c,
                                  !.text = content, !.reply = replyToId]
           IN IF isParticipant(c, u)
              THEN Start(s, [r EXCEPT !.pc = IF replyToId # NULL THEN "reply" ELSE "insert"])
              ELSE Start(s, Done(r, 403, NotParticipantText))
        /\ UNCHANGED <<db, auth>>

OtherConversationNever(replyConversationId, conversationId) == FALSE
\* replyToMessage.conversationId !== conversationId, the right side being params.id
OtherConversation(replyConversationId, conversationId) ==
    ~ StrictEq(JsNumber(replyConversationId), RouteParam(conversationId))

MsgStoreReplyAfterInsert(s) ==
    /\ At(s, "msgStore", "reply")
    /\ LET r == req[s]
       IN IF r.reply \notin DOMAIN messages
          THEN /\ msgSeq' = msgSeq + 1
               /\ \E at \in InsertStamps :
                     messages' = (msgSeq' :> NewMessage(r.conv, r.user, r.text, NULL, at))
                                 @@ messages
               /\ Respond(s, 404, "Message to reply to not found")
          ELSE /\ UNCHANGED <<messages, msgSeq>>
               /\ IF OtherConversation(messages[r.reply].conversationId, r.conv)
                  THEN Respond(s, 400, "Cannot reply to a message from a different conversation")
                  ELSE Goto(s, "insert")
    /\ UNCHANGED <<conversations, participants, convSeq, started, auth>>

\* store: the reply target must exist and be of the same conversation
MsgStoreReply(s) ==
    /\ At(s, "msgStore", "reply")
    /\ LET r == req[s]
       IN IF r.reply \notin DOMAIN messages
          THEN Respond(s, 404, "Message to reply to not found")
          ELSE IF OtherConversation(messages[r.reply].conversationId, r.conv)
               THEN Respond(s, 400, "Cannot reply to a message from a different conversation")
               ELSE Goto(s, "insert")
    /\ UNCHANGED <<db, started, auth>>

\* store: INSERT INTO messages
MsgStoreInsert(s) ==
    /\ At(s, "msgStore", "insert")
    /\ LET r == req[s]
       IN IF MessageInsertable(r.conv, r.user, r.reply)
          THEN /\ msgSeq' = msgSeq + 1
               /\ \E at \in InsertStamps :
                     messages' = (msgSeq' :> NewMessage(r.conv, r.user, r.text, r.reply, at))
                                 @@ messages
               /\ req' = [req EXCEPT ![s] = Done([@ EXCEPT !.msg = msgSeq'], 201, "")]
          ELSE /\ Respond(s, 500, "")
               /\ UNCHANGED <<messages, msgSeq>>
    /\ UNCHANGED <<conversations, participants, convSeq, started, auth>>

MsgStore(s) == MsgStoreGate(s) \/ MsgStoreReply(s) \/ MsgStoreInsert(s)

\* show: Message.find
MsgShowFind(s) ==
    \E u \in Users, m \in MsgIds :
        /\ CanStart(s)
        /\ LET r == [Idle EXCEPT !.op = "msgShow", !.user = u, !.msg = m]
           IN IF m \in DOMAIN messages
              THEN Start(s, [r EXCEPT !.pc = "member", !.conv = messages[m].conversationId])
              ELSE Start(s, Done(r, 404, "Message not found"))
        /\ UNCHANGED <<db, auth>>

\* show: ensureParticipant on the loaded message's conversation
MsgShowMember(s) ==
    /\ At(s, "msgShow", "member")
    /\ IF isParticipant(req[s].conv, req[s].user)
       THEN Respond(s, 200, "")
       ELSE Respond(s, 403, NotParticipantText)
    /\ UNCHANGED <<db, started, auth>>

MsgShow(s) == MsgShowFind(s) \/ MsgShowMember(s)

\* message.userId !== user.id
NotOwnerDropped(messageUserId, userId) == FALSE
NotOwner(messageUserId, userId) == ~ StrictEq(JsNumber(messageUserId), JsNumber(userId))

\* update: Message.find and the ownership check
MsgUpdateFind(s) ==
    \E u \in Users, m \in MsgIds, content \in EditTexts :
        /\ CanStart(s)
        /\ LET r == [Idle EXCEPT !.op = "msgUpdate", !.user = u, !.msg = m, !.text = content]
           IN IF m \notin DOMAIN messages
              THEN Start(s, Done(r, 404, "Message not found"))
              ELSE IF NotOwner(messages[m].userId, u)
                   THEN Start(s, Done(r, 403, "You can only edit your own messages"))
                   ELSE Start(s, [r EXCEPT !.pc = "save", !.conv = messages[m].conversationId,
                                           !.oldName = messages[m].content])
        /\ UNCHANGED <<db, auth>>

\* editedAt is a @column.dateTime() column, declared DateTime | null, and is
\* assigned a JavaScript Date: the ORM's preparation of the column, which is
\* not part of this repository, either writes the value or refuses it, and a
\* refusal is an error that no handler catches
SaveOutcomes == {"written", "refused"}

MsgUpdateSaveContentOnly(s) ==
    /\ At(s, "msgUpdate", "save")
    /\ \E now \in Times, outcome \in SaveOutcomes :
        LET r == req[s]
            m == r.msg
        IN IF outcome = "written"
           THEN /\ messages' =
                     IF m \in DOMAIN messages
                     THEN [messages EXCEPT
                             ![m].content = IF r.text # r.oldName THEN r.text ELSE @]
                     ELSE messages
                /\ Respond(s, 200, "")
           ELSE /\ UNCHANGED messages
                /\ Respond(s, 500, "")
    /\ UNCHANGED <<conversations, participants, convSeq, msgSeq, started, auth>>

MsgUpdateSaveUpsert(s) ==
    /\ At(s, "msgUpdate", "save")
    /\ \E now \in Times, outcome \in SaveOutcomes :
        LET r == req[s]
            m == r.msg
        IN IF outcome = "written"
           THEN /\ messages' =
                     IF m \in DOMAIN messages
                     THEN [messages EXCEPT
                             ![m].content = IF r.text # r.oldName THEN r.text ELSE @,
                             ![m].editedAt = now]
                     ELSE (m :> [NewMessage(r.conv, r.user, r.text, NULL, now)
                                    EXCEPT !.editedAt = now]) @@ messages
                /\ Respond(s, 200, "")
           ELSE /\ UNCHANGED messages
                /\ Respond(s, 500, "")
    /\ UNCHANGED <<conversations, participants, convSeq, msgSeq, started, auth>>

MsgUpdateSaveClearsReply(s) ==
    /\ At(s, "msgUpdate", "save")
    /\ \E now \in Times, outcome \in SaveOutcomes :
        LET r == req[s]
            m == r.msg
        IN IF outcome = "written"
           THEN /\ messages' =
                     IF m \in DOMAIN messages
                     THEN [messages EXCEPT
                             ![m].content = IF r.text # r.oldName THEN r.text ELSE @,
                             ![m].editedAt = now,
                             ![m].replyToId = r.reply]
                     ELSE messages
                /\ Respond(s, 200, "")
           ELSE /\ UNCHANGED messages
                /\ Respond(s, 500, "")
    /\ UNCHANGED <<conversations, participants, convSeq, msgSeq, started, auth>>

\* update: save() writes edited_at and, when it differs from the loaded one, content
MsgUpdateSave(s) ==
    /\ At(s, "msgUpdate", "save")
    /\ \E now \in Times, outcome \in SaveOutcomes :
        LET r == req[s]
            m == r.msg
        IN IF outcome = "written"
           THEN /\ messages' =
                     IF m \in DOMAIN messages
                     THEN [messages EXCEPT
                             ![m].content = IF r.text # r.oldName THEN r.text ELSE @,
                             ![m].editedAt = now]
                     ELSE messages
                /\ Respond(s, 200, "")
           ELSE /\ UNCHANGED messages
                /\ Respond(s, 500, "")
    /\ UNCHANGED <<conversations, participants, convSeq, msgSeq, started, auth>>

MsgUpdate(s) == MsgUpdateFind(s) \/ MsgUpdateSave(s)

\* destroy: Message.find and the ownership check
MsgDestroyFind(s) ==
    \E u \in Users, m \in MsgIds :
        /\ CanStart(s)
        /\ LET r == [Idle EXCEPT !.op = "msgDestroy", !.user = u, !.msg = m]
           IN IF m \notin DOMAIN messages
              THEN Start(s, Done(r, 404, "Message not found"))
              ELSE IF NotOwner(messages[m].userId, u)
                   THEN Start(s, Done(r, 403, "You can only delete your own messages"))
                   ELSE Start(s, [r EXCEPT !.pc = "delete",
                                           !.conv = messages[m].conversationId])
        /\ UNCHANGED <<db, auth>>

MsgDestroyDeleteThread(s) ==
    /\ At(s, "msgDestroy", "delete")
    /\ LET gone == {req[s].msg} \cap DOMAIN messages
           replies == {m \in DOMAIN messages : messages[m].replyToId \in gone}
       IN messages' = DeleteMessages(messages, gone \cup replies)
    /\ Respond(s, 204, "")
    /\ UNCHANGED <<conversations, participants, convSeq, msgSeq, started, auth>>

\* destroy: DELETE FROM messages WHERE id = m
MsgDestroyDelete(s) ==
    /\ At(s, "msgDestroy", "delete")
    /\ messages' = DeleteMessages(messages, {req[s].msg} \cap DOMAIN messages)
    /\ Respond(s, 204, "")
    /\ UNCHANGED <<conversations, participants, convSeq, msgSeq, started, auth>>

MsgDestroy(s) == MsgDestroyFind(s) \/ MsgDestroyDelete(s)

\* --------------------------------------------------------- AuthController
\* requests that will still insert a token: each keeps one id of the sequence free
PendingIssues ==
    {s \in Slots : req[s].op \in {"register", "login", "refresh", "guest"}
                   /\ req[s].pc \in {"create", "token"}}

CanIssue == tokenSeq + Cardinality(PendingIssues) < MaxTokens

\* the rows of token k
TokenRows(k) == {t \in tokens : t.id = k}

\* token.value.release(): the secret of a token is in the response that
\* issued it and nowhere else, so no request presents a token whose issuing
\* request has not answered yet
Released(k) == \A s \in Slots : req[s].pc # "done" => req[s].issued # k

\* the row the auth middleware accepts for the bearer token of the request
Verified(k) == {t \in TokenRows(k) : Released(k)}

\* User.accessTokens.create: INSERT INTO auth_access_tokens
Issue(s, abilities, expiresIn, label, code) ==
    /\ tokenSeq' = tokenSeq + 1
    /\ tokens' = tokens \cup {TokenRow(tokenSeq', req[s].user, abilities, expiresIn)}
    /\ IF label = "done"
       THEN req' = [req EXCEPT ![s] = [Done(@, code, "") EXCEPT !.issued = tokenSeq']]
       ELSE req' = [req EXCEPT ![s] = [@ EXCEPT !.pc = label, !.issued = tokenSeq']]

RevokeAll(rows, u, k) == {t \in rows : t.userId # u}
\* User.accessTokens.delete(user, identifier): DELETE WHERE id AND tokenable_id
Revoke(rows, u, k) == {t \in rows : ~ (t.id = k /\ t.userId = u)}

\* register: validate the payload and INSERT INTO users
RegisterCreate(s) ==
    \E n \in 1 .. MaxAccounts, caps \in BOOLEAN, password \in {LongPassword, ShortPassword},
       fullName \in NewTexts \cup {NoText} :
        /\ CanStart(s)
        /\ CanIssue
        /\ Cardinality(DOMAIN users) < MaxAccounts
        /\ LET r == [Idle EXCEPT !.op = "register"]
               email == normalizeEmail([UserEmail(n) EXCEPT !.caps = caps])
               id == Cardinality(DOMAIN users) + 1
           IN IF password = ShortPassword
              THEN /\ Start(s, Done(r, 422, "Validation failed"))
                   /\ UNCHANGED users
              ELSE IF \E u \in DOMAIN users : users[u].email = email
                   THEN /\ Start(s, Done(r, 500, ""))
                        /\ UNCHANGED users
                   ELSE /\ users' = (id :> [email |-> email, password |-> password,
                                             fullName |-> fullName]) @@ users
                        /\ Start(s, [r EXCEPT !.pc = "token", !.user = id])
        /\ UNCHANGED <<db, tokens, tokenSeq>>

RegisterToken(s) ==
    /\ At(s, "register", "token")
    /\ Issue(s, <<"*">>, NULL, "done", 201)
    /\ UNCHANGED <<db, users, started>>

Register(s) == RegisterCreate(s) \/ RegisterToken(s)

\* login: User.verifyCredentials(email, password)
LoginVerify(s) ==
    \E n \in 1 .. MaxAccounts, caps \in BOOLEAN, password \in {LongPassword, OtherPassword} :
        /\ CanStart(s)
        /\ CanIssue
        /\ LET r == [Idle EXCEPT !.op = "login"]
               email == normalizeEmail([UserEmail(n) EXCEPT !.caps = caps])
               found == {u \in DOMAIN users :
                            users[u].email = email /\ users[u].password = password}
           IN IF found = {}
              THEN Start(s, Done(r, 400, "Invalid user credentials"))
              ELSE \E u \in found : Start(s, [r EXCEPT !.pc = "create", !.user = u])
        /\ UNCHANGED <<db, auth>>

LoginCreate(s) ==
    /\ At(s, "login", "create")
    /\ Issue(s, <<"*">>, NULL, "done", 200)
    /\ UNCHANGED <<db, users, started>>

Login(s) == LoginVerify(s) \/ LoginCreate(s)

\* refresh, behind the auth middleware: the token's row gives the user
RefreshAuth(s) ==
    \E k \in TokenIds :
        /\ CanStart(s)
        /\ CanIssue
        /\ LET r == [Idle EXCEPT !.op = "refresh", !.token = k]
           IN IF Verified(k) = {}
              THEN Start(s, Done(r, 401, "Unauthorized access"))
              ELSE \E t \in Verified(k) :
                      Start(s, [r EXCEPT !.pc = "create", !.user = t.userId])
        /\ UNCHANGED <<db, auth>>

\* refresh: the new token first
RefreshCreate(s) ==
    /\ At(s, "refresh", "create")
    /\ Issue(s, <<"*">>, NULL, "delete", 0)
    /\ UNCHANGED <<db, users, started>>

\* refresh: then the token of the request is deleted
RefreshDelete(s) ==
    /\ At(s, "refresh", "delete")
    /\ tokens' = Revoke(tokens, req[s].user, req[s].token)
    /\ req' = [req EXCEPT ![s] = [Done(@, 200, "") EXCEPT !.issued = req[s].issued]]
    /\ UNCHANGED <<db, users, tokenSeq, started>>

Refresh(s) == RefreshAuth(s) \/ RefreshCreate(s) \/ RefreshDelete(s)

\* logout, behind the auth middleware
LogoutAuth(s) ==
    \E k \in TokenIds :
        /\ CanStart(s)
        /\ LET r == [Idle EXCEPT !.op = "logout", !.token = k]
           IN IF Verified(k) = {}
              THEN Start(s, Done(r, 401, "Unauthorized access"))
              ELSE \E t \in Verified(k) :
                      Start(s, [r EXCEPT !.pc = "delete", !.user = t.userId])
        /\ UNCHANGED <<db, auth>>

LogoutDelete(s) ==
    /\ At(s, "logout", "delete")
    /\ tokens' = Revoke(tokens, req[s].user, req[s].token)
    /\ Respond(s, 204, "")
    /\ UNCHANGED <<db, users, tokenSeq, started>>

Logout(s) == LogoutAuth(s) \/ LogoutDelete(s)

\* guest: a user under an address made of the clock and a random string
GuestCreate(s) ==
    /\ CanStart(s)
    /\ CanIssue
    /\ Cardinality(DOMAIN users) < MaxAccounts
    /\ LET id == Cardinality(DOMAIN users) + 1
       IN /\ users' = (id :> [email |-> GuestEmail(id), password |-> OtherPassword,
                                fullName |-> "Guest User"]) @@ users
          /\ Start(s, [Idle EXCEPT !.op = "guest", !.pc = "token", !.user = id])
    /\ UNCHANGED <<db, tokens, tokenSeq>>

GuestToken(s) ==
    /\ At(s, "guest", "token")
    /\ Issue(s, <<"guest">>, "7d", "done", 201)
    /\ UNCHANGED <<db, users, started>>

Guest(s) == GuestCreate(s) \/ GuestToken(s)

\* ---------------------------------------------------------- specifications
\* Every handler, from an empty store.
Next ==
    \E s \in Slots :
        \/ ConvIndex(s)
        \/ ConvStore(s)
        \/ ConvShow(s)
        \/ ConvUpdate(s)
        \/ ConvDestroy(s)
        \/ AddParticipant(s)
        \/ RemoveParticipant(s)
        \/ MsgIndex(s)
        \/ MsgStore(s)
        \/ MsgShow(s)
        \/ MsgUpdate(s)
        \/ MsgDestroy(s)
        \/ Register(s)
        \/ Login(s)
        \/ Refresh(s)
        \/ Logout(s)
        \/ Guest(s)

Spec == Init /\ [][Next]_vars

\* The roster handlers, from an empty store.
NextRoster ==
    \E s \in Slots :
        \/ ConvStore(s)
        \/ ConvShow(s)
        \/ AddParticipant(s)
        \/ RemoveParticipant(s)

SpecRoster == Init /\ [][NextRoster]_vars

\* The store after user 1 created conversation 1 with participantIds = <<2>> and
\* user 2 created conversation 2 with participantIds = <<2>>.
TwoRooms ==
    /\ conversations = (1 :> [createdBy |-> 1, name |-> "hello", description |-> NoText])
                        @@ (2 :> [createdBy |-> 2, name |-> NoText, description |-> NoText])
    /\ participants = {NewRow(1, 1, 1), NewRow(1, 2, 2), NewRow(2, 2, 3)}
    /\ convSeq = 2

InitRooms ==
    /\ SignedUp
    /\ TwoRooms
    /\ messages = << >>
    /\ msgSeq = 0
    /\ req = [s \in Slots |-> Idle]
    /\ started = 0

\* The message handlers and the roster change that takes a caller's row away.
NextMessages ==
    \E s \in Slots :
        \/ MsgIndex(s)
        \/ MsgStore(s)
        \/ MsgShow(s)
        \/ MsgUpdate(s)
        \/ MsgDestroy(s)
        \/ AddParticipant(s)
        \/ RemoveParticipant(s)

SpecMessages == InitRooms /\ [][NextMessages]_vars

\* The creator-gated handlers next to the ones that fill a conversation.
NextCreator ==
    \E s \in Slots :
        \/ ConvUpdate(s)
        \/ ConvDestroy(s)
        \/ MsgStore(s)
        \/ RemoveParticipant(s)

SpecCreator == InitRooms /\ [][NextCreator]_vars

\* A store that already holds a thread: message 1 by user 1 in conversation 1 and
\* message 2 by user 2, a reply to it. The rows satisfy every constraint of
\* the messages table; MsgStoreReply itself turns every reply away (see
\* OtherConversation), so the thread is given and not built by a handler.
InitThread ==
    /\ SignedUp
    /\ TwoRooms
    /\ messages = (1 :> NewMessage(1, 1, "hello", NULL, 1))
                   @@ (2 :> NewMessage(1, 2, "hello", 1, 2))
    /\ msgSeq = 2
    /\ req = [s \in Slots |-> Idle]
    /\ started = 0

NextThread ==
    \E s \in Slots :
        \/ MsgStore(s)
        \/ MsgUpdate(s)
        \/ MsgDestroy(s)
        \/ ConvDestroy(s)

SpecThread == InitThread /\ [][NextThread]_vars

\* Reading a conversation while its creator deletes it or a roster row goes.
NextLookup ==
    \E s \in Slots :
        \/ ConvShow(s)
        \/ ConvDestroy(s)
        \/ RemoveParticipant(s)

SpecLookup == InitRooms /\ [][NextLookup]_vars

\* Listing one's conversations while conversations are created and rows removed.
NextListing ==
    \E s \in Slots :
        \/ ConvIndex(s)
        \/ ConvStore(s)
        \/ RemoveParticipant(s)

SpecListing == Init /\ [][NextListing]_vars

\* Conversation 1 after three messages were posted to it, by user 1, user 2
\* and user 1: each stamped no earlier than the one before.
InitPages ==
    /\ SignedUp
    /\ TwoRooms
    /\ \E at \in {<<1, 1, 1>>, <<1, 1, 2>>, <<1, 2, 2>>, <<1, 2, 3>>} :
          messages = (1 :> NewMessage(1, 1, "hello", NULL, at[1]))
                     @@ (2 :> NewMessage(1, 2, "hello", NULL, at[2]))
                     @@ (3 :> NewMessage(1, 1, "hello", NULL, at[3]))
    /\ msgSeq = 3
    /\ req = [s \in Slots |-> Idle]
    /\ started = 0

\* Reading the pages of a conversation that nobody writes to meanwhile.
NextPages == \E s \in Slots : MsgIndex(s)

SpecPages == InitPages /\ [][NextPages]_vars

\* ------------------------------------------------------------- properties
\* the step is taken by the request in slot s
StepOf(s) == req'[s] # req[s]

\* slot s starts a request in this step: req'[s] is its request line
Starts(s) == req[s].pc = "done" /\ StepOf(s)

HasRow(c, u) == \E p \in participants : p.conversationId = c /\ p.userId = u

\* the handlers whose first statement is ensureParticipant(params.id, user.id)
GatedFirst == {"msgIndex", "msgStore", "addParticipant", "removeParticipant"}
\* the handlers that load the target first and call ensureParticipant second
GatedSecond == {"convShow", "msgShow"}

\* the handlers that write for the caller behind ensureParticipant
GatedWrites == {"msgStore", "addParticipant", "removeParticipant"}

\* C1 as claimed: the message of caller U is inserted into conversation C, and
\* the roster change U requested is applied, only at a moment when a
\* Participant row (C,U) exists.
C1_EffectOnlyWhileParticipant ==
    [][\A s \in Slots :
          (/\ StepOf(s)
           /\ req[s].op \in GatedWrites
           /\ req[s].pc # "done"
           /\ (messages' # messages \/ participants' # participants))
          => HasRow(req[s].conv, req[s].user)]_vars

\* C1 amended: a conversation-scoped request of caller U on conversation C is
\* let past its ensureParticipant check only if a Participant row (C,U) exists
\* in the state the check reads; a check that finds no row ends the request
\* with 403 and leaves the store as it was.
C1_AdmittedOnlyWithRow ==
    [][\A s \in Slots :
          /\ (/\ Starts(s)
              /\ req'[s].op \in GatedFirst
              /\ ~ HasRow(req'[s].conv, req'[s].user))
             => (/\ req'[s].pc = "done"
                 /\ req'[s].status = 403
                 /\ req'[s].message = NotParticipantText
                 /\ UNCHANGED <<conversations, participants, messages>>)
          /\ (/\ StepOf(s)
              /\ req[s].op \in GatedSecond
              /\ req[s].pc = "member"
              /\ ~ HasRow(req[s].conv, req[s].user))
             => (/\ req'[s].pc = "done"
                 /\ req'[s].status = 403
                 /\ req'[s].message = NotParticipantText
                 /\ UNCHANGED <<conversations, participants, messages>>)]_vars

\* a message whose author was removed between the check and the insert
C1_Witness ==
    \E s \in Slots :
        /\ req[s].op = "msgStore"
        /\ req[s].pc = "done"
        /\ req[s].status = 201
        /\ req[s].msg \in DOMAIN messages
        /\ ~ HasRow(req[s].conv, req[s].user)
        /\ \E t \in Slots :
              /\ req[t].op = "msgStore"
              /\ req[t].status = 403
              /\ req[t].conv \in DOMAIN conversations

\* C2: in every reachable state there is at most one Participant row for each
\* (conversation, user) pair.
C2_UniqueParticipant ==
    \A c \in ConvIds, u \in UserIdInputs : Cardinality(ParticipantRows(c, u)) <= 1

\* an INSERT that the constraint refused, the pair's one row in place
C2_Witness ==
    \E s \in Slots :
        /\ req[s].op = "addParticipant"
        /\ req[s].pc = "done"
        /\ req[s].status = 500
        /\ Cardinality(ParticipantRows(req[s].conv, req[s].target)) = 1

\* C3 as claimed: of two addParticipant requests for the same pair that were in
\* flight together and both got past the caller's membership check, one
\* persists the row and succeeds and the other one receives AlreadyParticipant
\* (400); exactly one row exists.
C3_LoserGetsAlreadyParticipant ==
    \A s, t \in Slots :
        (/\ s # t
         /\ req[s].op = "addParticipant" /\ req[t].op = "addParticipant"
         /\ req[s].pc = "done" /\ req[t].pc = "done"
         /\ req[s].conv = req[t].conv /\ req[s].target = req[t].target
         /\ req[s].status = 200
         /\ req[t].status \notin {403, 404})
        => (/\ req[t].status = 400
            /\ req[t].message = "User is already a participant"
            /\ Cardinality(ParticipantRows(req[s].conv, req[s].target)) = 1)

\* C4: every message whose replyTo is set references a message that exists and
\* that belongs to the same conversation.
C4_ReplyIntegrity ==
    \A m \in DOMAIN messages :
        messages[m].replyToId # NULL =>
            /\ messages[m].replyToId \in DOMAIN messages
            /\ messages[messages[m].replyToId].conversationId = messages[m].conversationId

\* a reply whose target is alive, after a reply into another conversation was refused
C4_Witness ==
    /\ \E m \in DOMAIN messages : messages[m].replyToId \in DOMAIN messages
    /\ \E s \in Slots :
          /\ req[s].op = "msgStore"
          /\ req[s].status = 400
          /\ req[s].reply \in DOMAIN messages
          /\ messages[req[s].reply].conversationId # req[s].conv

\* the reply target of the request line r exists and is of another conversation
CrossReply(r) ==
    /\ r.reply \in DOMAIN messages
    /\ messages[r.reply].conversationId # r.conv

\* C5 as claimed: a create in conversation Y whose replyToId is an existing
\* message of another conversation X is answered 400, whoever the caller is.
C5_CrossReplyAlways400 ==
    \A s \in Slots :
        (/\ req[s].op = "msgStore"
         /\ req[s].pc = "done"
         /\ req[s].status \in {403, 400, 201}
         /\ CrossReply(req[s]))
        => req[s].status = 400

\* C5 amended: such a create inserts no message; a caller who is a participant
\* of Y is answered ReplyTargetCrossConversation (400) when the handler loads
\* the target, whether or not the caller is a participant of X; a caller who
\* is not a participant of Y is answered NotAParticipant (403).
C5_CrossReplyRejected ==
    [][\A s \in Slots :
          /\ (/\ Starts(s) /\ req'[s].op = "msgStore" /\ CrossReply(req'[s]))
             => (/\ UNCHANGED messages
                 /\ IF HasRow(req'[s].conv, req'[s].user)
                    THEN req'[s].pc = "reply"
                    ELSE /\ req'[s].pc = "done"
                         /\ req'[s].status = 403
                         /\ req'[s].message = NotParticipantText)
          /\ (/\ StepOf(s) /\ req[s].op = "msgStore" /\ req[s].pc = "reply"
              /\ CrossReply(req[s]))
             => (/\ UNCHANGED messages
                 /\ req'[s].pc = "done"
                 /\ req'[s].status = 400
                 /\ req'[s].message =
                        "Cannot reply to a message from a different conversation")]_vars

\* a participant of Y who is not one of X was answered 400
C5_Witness ==
    \E s \in Slots :
        /\ req[s].op = "msgStore"
        /\ req[s].pc = "done"
        /\ req[s].status = 400
        /\ CrossReply(req[s])
        /\ HasRow(req[s].conv, req[s].user)
        /\ ~ HasRow(messages[req[s].reply].conversationId, req[s].user)

\* C6: the DELETE of message M by its author removes M alone; every message
\* that replied to M stays, with replyToId null and nothing else changed.
C6_ReplySurvival ==
    [][\A s \in Slots :
          (/\ StepOf(s)
           /\ req[s].op = "msgDestroy"
           /\ req[s].pc = "delete"
           /\ req[s].msg \in DOMAIN messages)
          => (/\ DOMAIN messages' = DOMAIN messages \ {req[s].msg}
              /\ \A r \in DOMAIN messages' :
                    messages'[r] =
                        IF messages[r].replyToId = req[s].msg
                        THEN [messages[r] EXCEPT !.replyToId = NULL]
                        ELSE messages[r])]_vars

\* message 1 was deleted by its author and its reply, message 2, is still there
C6_Witness ==
    /\ 1 \notin DOMAIN messages
    /\ 2 \in DOMAIN messages
    /\ messages[2] = NewMessage(1, 2, "hello", NULL, 2)
    /\ \E s \in Slots :
          req[s].op = "msgDestroy" /\ req[s].msg = 1 /\ req[s].user = 1 /\ req[s].status = 204

\* C7: update and delete of message M by a participant of M's conversation who
\* is not M's author are answered NotMessageOwner (403) and leave the messages
\* as they were.
C7_OwnershipGate ==
    [][\A s \in Slots :
          (/\ Starts(s)
           /\ req'[s].op \in {"msgUpdate", "msgDestroy"}
           /\ req'[s].msg \in DOMAIN messages
           /\ messages[req'[s].msg].userId # req'[s].user
           /\ HasRow(messages[req'[s].msg].conversationId, req'[s].user))
          => (/\ req'[s].pc = "done"
              /\ req'[s].status = 403
              /\ req'[s].message =
                    IF req'[s].op = "msgUpdate"
                    THEN "You can only edit your own messages"
                    ELSE "You can only delete your own messages"
              /\ messages' = messages)]_vars

C7_Witness ==
    \E s \in Slots :
        /\ req[s].op \in {"msgUpdate", "msgDestroy"}
        /\ req[s].status = 403
        /\ req[s].msg \in DOMAIN messages
        /\ messages[req[s].msg].userId # req[s].user
        /\ messages[req[s].msg].editedAt = NULL
        /\ HasRow(messages[req[s].msg].conversationId, req[s].user)

\* C8: update and delete of conversation C by a participant who is not its
\* creator are answered NotCreator (403) and leave C, the rosters and the
\* messages as they were; a conversation row changes or goes only in a step of
\* an update or delete request whose caller is its creator.
C8_CreatorGate ==
    [][\A s \in Slots :
          /\ (/\ Starts(s)
              /\ req'[s].op \in {"convUpdate", "convDestroy"}
              /\ req'[s].conv \in DOMAIN conversations
              /\ conversations[req'[s].conv].createdBy # req'[s].user
              /\ HasRow(req'[s].conv, req'[s].user))
             => (/\ req'[s].pc = "done"
                 /\ req'[s].status = 403
                 /\ req'[s].message =
                       IF req'[s].op = "convUpdate"
                       THEN "Only the creator can update this conversation"
                       ELSE "Only the creator can delete this conversation"
                 /\ UNCHANGED <<conversations, participants, messages>>)
          /\ \A c \in DOMAIN conversations :
                (/\ StepOf(s)
                 /\ (c \notin DOMAIN conversations' \/ conversations'[c] # conversations[c]))
                => (/\ req[s].op \in {"convUpdate", "convDestroy"}
                    /\ req[s].conv = c
                    /\ req[s].user = conversations[c].createdBy)]_vars

C8_Witness ==
    \E s \in Slots :
        /\ req[s].op \in {"convUpdate", "convDestroy"}
        /\ req[s].status = 403
        /\ req[s].conv \in DOMAIN conversations
        /\ conversations[req[s].conv].createdBy # req[s].user
        /\ HasRow(req[s].conv, req[s].user)
        /\ \E m \in DOMAIN messages : messages[m].conversationId = req[s].conv

\* C9 as claimed: an update or delete of message M by its author A that starts
\* when A has no Participant row in M's conversation is refused.
C9_RemovedAuthorBlocked ==
    [][\A s \in Slots :
          (/\ Starts(s)
           /\ req'[s].op \in {"msgUpdate", "msgDestroy"}
           /\ req'[s].msg \in DOMAIN messages
           /\ messages[req'[s].msg].userId = req'[s].user
           /\ ~ HasRow(messages[req'[s].msg].conversationId, req'[s].user))
          => (req'[s].pc = "done" /\ req'[s].status = 403)]_vars

\* C10 as claimed: while a create is between its statements, its conversation
\* is not yet in the store for other requests to read.
C10_CreateAtomic ==
    \A s \in Slots :
        (req[s].op = "convStore" /\ req[s].pc # "done")
        => req[s].conv \notin DOMAIN conversations

\* the users on the roster of conversation c in the table rows
RosterOf(rows, c) == {p.userId : p \in {q \in rows : q.conversationId = c}}

\* C11 as claimed: a create by A that runs alone and whose participantIds all
\* resolve to existing users, A's own id and repeated ids included, is
\* answered 201 and leaves the roster {A} united with the listed ids, one row
\* each.
C11_CreateRoster ==
    [][\A s \in Slots :
          (/\ StepOf(s)
           /\ started = 1
           /\ req[s].op = "convStore"
           /\ req[s].pc # "done"
           /\ req'[s].pc = "done"
           /\ Range(req[s].ids) \subseteq Users)
          => (/\ req'[s].status = 201
              /\ RosterOf(participants', req[s].conv) = {req[s].user} \cup Range(req[s].ids)
              /\ \A u \in Users :
                    Cardinality({p \in participants' :
                                    p.conversationId = req[s].conv /\ p.userId = u}) <= 1)]_vars

\* C12: isParticipant(C,U) is true exactly when a Participant row (C,U) is in
\* the table; the steps that evaluate it answer by it and change no table;
\* the statement of create that follows the conversation's INSERT makes
\* isParticipant(C, creator) true, and it is true when a create that ran
\* alone has answered.
C12_IsParticipantIffRow ==
    [][/\ \A c \in ConvIds, u \in UserIdInputs :
              isParticipant(c, u) <=>
                  (\E p \in participants : p.conversationId = c /\ p.userId = u)
       /\ \A s \in Slots :
              /\ (Starts(s) /\ req'[s].op \in GatedFirst)
                 => (/\ UNCHANGED db
                     /\ isParticipant(req'[s].conv, req'[s].user) <=> req'[s].status # 403)
              /\ (StepOf(s) /\ req[s].op \in GatedSecond /\ req[s].pc = "member")
                 => (/\ UNCHANGED db
                     /\ isParticipant(req[s].conv, req[s].user) <=> req'[s].status # 403)
              /\ (StepOf(s) /\ req[s].op = "convStore" /\ req[s].pc = "creator")
                 => isParticipant(req[s].conv, req[s].user)'
              /\ (/\ StepOf(s) /\ req[s].op = "convStore" /\ req[s].pc # "done"
                  /\ req'[s].pc = "done" /\ started = 1)
                 => isParticipant(req[s].conv, req[s].user)']_vars

\* a finished create whose creator is a participant, next to a caller of the
\* same conversation who is not and was told so
C12_Witness ==
    \E s, t \in Slots :
        /\ req[s].op = "convStore" /\ req[s].pc = "done" /\ req[s].status = 201
        /\ isParticipant(req[s].conv, req[s].user)
        /\ req[t].op = "convShow" /\ req[t].pc = "done" /\ req[t].status = 403
        /\ req[t].conv = req[s].conv
        /\ ~ isParticipant(req[t].conv, req[t].user)

\* slot s starts, in this step, the removeParticipant call it has just
\* answered with success once more: same caller, conversation and target,
\* the target's row still gone, and the caller either the target or still on
\* the roster
RemovesAgain(s) ==
    /\ Starts(s)
    /\ req[s].op = "removeParticipant" /\ req[s].status = 200
    /\ req'[s].op = "removeParticipant"
    /\ req'[s].user = req[s].user
    /\ req'[s].conv = req[s].conv
    /\ req'[s].target = req[s].target
    /\ ~ HasRow(req[s].conv, req[s].target)
    /\ (req[s].user = req[s].target \/ HasRow(req[s].conv, req[s].user))

\* C13 as claimed: the second of two removeParticipant calls in sequence gets
\* past the caller's check and is answered ParticipantNotFound (404), also
\* when the caller removed their own row.
C13_SecondRemoveNotFound ==
    [][\A s \in Slots : RemovesAgain(s) => req'[s].pc = "find"]_vars

\* C13 amended: the first call deletes the row (C,T) it loaded and is answered
\* 200, after which, the row having still been there, T has no row in C; the
\* second call is answered ParticipantNotFound (404) when the caller is
\* another participant than T, and NotAParticipant (403) when the caller is T,
\* whose own row the first call removed; the second call changes no table.
C13_RemoveTwice ==
    [][\A s \in Slots :
          /\ (StepOf(s) /\ req[s].op = "removeParticipant" /\ req[s].pc = "delete")
             => (/\ req'[s].pc = "done" /\ req'[s].status = 200
                 /\ \A p \in participants' : p.id # req[s].row
                 /\ (\E p \in participants : p.id = req[s].row)
                    => ~ HasRow(req[s].conv, req[s].target)')
          /\ RemovesAgain(s)
             => (/\ UNCHANGED db
                 /\ IF req[s].user = req[s].target
                    THEN /\ req'[s].pc = "done"
                         /\ req'[s].status = 403
                         /\ req'[s].message = NotParticipantText
                    ELSE req'[s].pc = "find")
          /\ (/\ StepOf(s) /\ req[s].op = "removeParticipant" /\ req[s].pc = "find"
              /\ ~ HasRow(req[s].conv, req[s].target))
             => (/\ UNCHANGED db
                 /\ req'[s].pc = "done"
                 /\ req'[s].status = 404
                 /\ req'[s].message = "Participant not found")]_vars

\* the same removal answered with success to one call and with 404 to the other
C13_Witness ==
    \E s, t \in Slots :
        /\ req[s].op = "removeParticipant" /\ req[t].op = "removeParticipant"
        /\ req[s].pc = "done" /\ req[t].pc = "done"
        /\ req[s].user = req[t].user /\ req[s].conv = req[t].conv
        /\ req[s].target = req[t].target
        /\ req[s].user # req[s].target
        /\ req[s].status = 200 /\ req[t].status = 404
        /\ HasRow(req[s].conv, req[s].user)
        /\ ~ HasRow(req[s].conv, req[s].target)

\* C14: show looks the conversation up first: an id with no conversation is
\* answered ConversationNotFound (404) whoever the caller is; an id with a
\* conversation takes the request on to the membership check, which alone
\* answers NotAParticipant (403), and does so exactly when the caller has no
\* Participant row; the conversation is returned (200) when it was found and
\* the caller has a row.
C14_ExistenceBeforeMembership ==
    [][\A s \in Slots :
          /\ (Starts(s) /\ req'[s].op = "convShow")
             => (/\ UNCHANGED db
                 /\ IF req'[s].conv \in DOMAIN conversations
                    THEN req'[s].pc = "member"
                    ELSE /\ req'[s].pc = "done"
                         /\ req'[s].status = 404
                         /\ req'[s].message = "Conversation not found")
          /\ (StepOf(s) /\ req[s].op = "convShow" /\ req[s].pc = "member")
             => (/\ UNCHANGED db
                 /\ req'[s].pc = "done"
                 /\ IF HasRow(req[s].conv, req[s].user)
                    THEN req'[s].status = 200
                    ELSE /\ req'[s].status = 403
                         /\ req'[s].message = NotParticipantText)]_vars

\* one caller told that the conversation does not exist, another one that the
\* conversation is not theirs to read
C14_Witness ==
    \E s, t \in Slots :
        /\ req[s].op = "convShow" /\ req[s].pc = "done" /\ req[s].status = 404
        /\ req[s].conv \notin DOMAIN conversations
        /\ req[t].op = "convShow" /\ req[t].pc = "done" /\ req[t].status = 403
        /\ req[t].conv \in DOMAIN conversations
        /\ ~ HasRow(req[t].conv, req[t].user)

\* C15: the DELETE of conversation C by its creator takes away C, every
\* Participant row of C and every message of C, and leaves every other
\* conversation, its roster and its messages as they were; no row or message
\* of a conversation that is gone is ever in the store.
C15_DeleteCascades ==
    [][/\ \A p \in participants : p.conversationId \in DOMAIN conversations
       /\ \A m \in DOMAIN messages : messages[m].conversationId \in DOMAIN conversations
       /\ \A s \in Slots :
             (/\ StepOf(s)
              /\ req[s].op = "convDestroy"
              /\ req[s].pc = "delete"
              /\ req[s].conv \in DOMAIN conversations)
             => (/\ req'[s].pc = "done" /\ req'[s].status = 204
                 /\ req[s].user = conversations[req[s].conv].createdBy
                 /\ conversations' = Restrict(conversations, DOMAIN conversations \ {req[s].conv})
                 /\ participants' = {p \in participants : p.conversationId # req[s].conv}
                 /\ DOMAIN messages' =
                       {m \in DOMAIN messages : messages[m].conversationId # req[s].conv}
                 /\ \A m \in DOMAIN messages' : messages'[m] = messages[m])]_vars

\* conversation 1 with its thread deleted by its creator, conversation 2 and a
\* message of it in place
C15_Witness ==
    /\ \E s \in Slots :
          /\ req[s].op = "convDestroy" /\ req[s].pc = "done" /\ req[s].status = 204
          /\ req[s].conv = 1 /\ req[s].user = 1
    /\ 1 \notin DOMAIN conversations
    /\ 2 \in DOMAIN conversations
    /\ HasRow(2, 2)
    /\ \E m \in DOMAIN messages : messages[m].conversationId = 2
    /\ ~ \E m \in DOMAIN messages : messages[m].conversationId = 1
    /\ ~ \E p \in participants : p.conversationId = 1

\* C16: the list answered to U holds exactly the conversations in which U has
\* a Participant row in the state the query reads, each once, a conversation
\* created later before one created earlier; the query changes no table.
C16_ListMine ==
    [][\A s \in Slots :
          (Starts(s) /\ req'[s].op = "convIndex")
          => LET list == req'[s].list
             IN /\ UNCHANGED db
                /\ req'[s].pc = "done" /\ req'[s].status = 200
                /\ Range(list) = {c \in DOMAIN conversations : HasRow(c, req'[s].user)}
                /\ \A i, j \in 1 .. Len(list) : i < j => list[i] > list[j]]_vars

\* the creator's create has answered and a listed user sees both their
\* conversations, the new one first, with a conversation in the store that a
\* list leaves out
C16_Witness ==
    \E s, t \in Slots :
        /\ req[s].op = "convStore" /\ req[s].pc = "done" /\ req[s].status = 201
        /\ req[t].op = "convIndex" /\ req[t].pc = "done"
        /\ req[t].user # req[s].user
        /\ Len(req[t].list) = 2
        /\ req[t].list[1] = req[s].conv
        /\ \E c \in DOMAIN conversations, u \in Users : ~ HasRow(c, u)

\* C17 as claimed: a create by a participant of C whose replyToId is an
\* existing message of the same conversation C is not turned away by the
\* check of the reply target and goes on to insert the message.
C17_SameConversationReply ==
    [][\A s \in Slots :
          (/\ StepOf(s)
           /\ req[s].op = "msgStore"
           /\ req[s].pc = "reply"
           /\ req[s].reply \in DOMAIN messages
           /\ messages[req[s].reply].conversationId = req[s].conv)
          => req'[s].pc = "insert"]_vars

\* C18: a message is inserted with editedAt null; editedAt becomes non-null
\* only in the save of an update of that message that is answered 200, every
\* such save of a message still in the store leaves it non-null, and no step
\* sets a non-null editedAt of a message in the store back to null.
C18_EditedStaysEdited ==
    [][/\ \A m \in DOMAIN messages' \ DOMAIN messages : messages'[m].editedAt = NULL
       /\ \A m \in DOMAIN messages \cap DOMAIN messages' :
             /\ messages[m].editedAt # NULL => messages'[m].editedAt # NULL
             /\ (messages[m].editedAt = NULL /\ messages'[m].editedAt # NULL)
                => \E s \in Slots :
                      /\ StepOf(s)
                      /\ req[s].op = "msgUpdate" /\ req[s].pc = "save" /\ req[s].msg = m
                      /\ req'[s].status = 200
       /\ \A s \in Slots :
             (/\ StepOf(s)
              /\ req[s].op = "msgUpdate" /\ req[s].pc = "save"
              /\ req'[s].status = 200
              /\ req[s].msg \in DOMAIN messages)
             => (/\ req[s].msg \in DOMAIN messages'
                 /\ messages'[req[s].msg].editedAt # NULL)]_vars

\* a message edited twice, still marked edited, next to one never edited
C18_Witness ==
    /\ \E s, t \in Slots :
          /\ s # t
          /\ req[s].op = "msgUpdate" /\ req[t].op = "msgUpdate"
          /\ req[s].status = 200 /\ req[t].status = 200
          /\ req[s].msg = req[t].msg
          /\ req[s].msg \in DOMAIN messages
          /\ messages[req[s].msg].editedAt # NULL
    /\ \E m \in DOMAIN messages : messages[m].editedAt = NULL

\* message m was handed out by the sequence and its row is gone
Deleted(m) == m <= msgSeq /\ m \notin DOMAIN messages

\* C19: the row of a deleted message never comes back, whatever step follows,
\* the save of an update that loaded it before the delete included; a get,
\* update or delete that starts when the message is deleted is answered
\* MessageNotFound (404) and changes nothing.
C19_DeletedIsTerminal ==
    [][/\ \A m \in MsgIds : Deleted(m) => Deleted(m)'
       /\ \A s \in Slots :
             /\ (/\ StepOf(s) /\ req[s].op = "msgUpdate" /\ req[s].pc = "save"
                 /\ Deleted(req[s].msg))
                => UNCHANGED db
             /\ (/\ Starts(s)
                 /\ req'[s].op \in {"msgShow", "msgUpdate", "msgDestroy"}
                 /\ Deleted(req'[s].msg))
                => (/\ UNCHANGED db
                    /\ req'[s].pc = "done"
                    /\ req'[s].status = 404
                    /\ req'[s].message = "Message not found")]_vars

\* the author's update has loaded the message, the delete has been answered,
\* and the save is still to come
C19_Witness ==
    \E s, t \in Slots :
        /\ req[s].op = "msgUpdate" /\ req[s].pc = "save"
        /\ req[t].op = "msgDestroy" /\ req[t].pc = "done" /\ req[t].status = 204
        /\ req[t].msg = req[s].msg
        /\ Deleted(req[s].msg)

\* slot s holds the answer to a list request of conversation c with page size n
ListedPage(s, c, n) ==
    /\ req[s].op = "msgIndex" /\ req[s].pc = "done" /\ req[s].status = 200
    /\ req[s].conv = c
    /\ LimitOf(req[s].limit) = n

\* C20 as claimed: of a conversation that is not written to, with N messages
\* and page size L, page p holds min(p*L, N) - (p-1)*L messages (none beyond
\* the last page), two different pages share no message, and the pages
\* 1 .. ceil(N/L) together hold all N messages.
C20_PagesPartition ==
    \A c \in ConvIds, n \in (1 .. MaxLimit) \cup {DefaultLimit} :
        LET all == MessagesOf(messages, c)
            N == Cardinality(all)
        IN \A s, t \in Slots :
              (ListedPage(s, c, n) /\ ListedPage(t, c, n))
              => LET p == req[s].page
                     q == req[t].page
                     upTo == IF p * n < N THEN p * n ELSE N
                 IN /\ Len(req[s].list) = IF upTo > (p - 1) * n THEN upTo - (p - 1) * n ELSE 0
                    /\ Range(req[s].list) \subseteq all
                    /\ p # q => Range(req[s].list) \cap Range(req[t].list) = {}
                    /\ (p # q /\ 2 * n >= N)
                       => Range(req[s].list) \cup Range(req[t].list) = all

\* the listed ids of a create request that resolve to no user
Unresolved(ids) == Range(ids) \ Users

\* C21: a create whose participantIds holds an id that resolves to no user
\* commits the conversation row, then the creator's Participant row, and is
\* then answered InvalidParticipant (400) by the id check, which changes no
\* table; no step of the request inserts a row for a listed id.
C21_InvalidIdFails ==
    [][\A s \in Slots :
          /\ (Starts(s) /\ req'[s].op = "convStore" /\ Unresolved(req'[s].ids) # {})
             => (/\ req'[s].conv \notin DOMAIN conversations
                 /\ req'[s].conv \in DOMAIN conversations'
                 /\ conversations'[req'[s].conv].createdBy = req'[s].user
                 /\ req'[s].pc = "creator"
                 /\ participants' = participants)
          /\ (/\ StepOf(s)
              /\ req[s].op = "convStore"
              /\ req[s].pc # "done"
              /\ Unresolved(req[s].ids) # {})
             => (/\ conversations' = conversations
                 /\ req[s].pc \in {"creator", "verify"}
                 /\ req[s].pc = "creator"
                    => (/\ \E p \in participants' \ participants :
                              /\ p.conversationId = req[s].conv
                              /\ p.userId = req[s].user
                              /\ participants' = participants \cup {p}
                        /\ req'[s].pc = "verify")
                 /\ req[s].pc = "verify"
                    => (/\ req'[s].pc = "done"
                        /\ req'[s].status = 400
                        /\ req'[s].message = "One or more participant IDs are invalid"
                        /\ participants' = participants))]_vars

\* a create stands at its id check with an id that resolves to nobody, its
\* conversation and its creator's row committed, after an earlier create was
\* answered 400 and left a conversation whose roster is its creator alone
C21_Witness ==
    \E s, t \in Slots :
        /\ req[s].op = "convStore"
        /\ req[s].pc = "verify"
        /\ Unresolved(req[s].ids) # {}
        /\ req[s].conv \in DOMAIN conversations
        /\ RosterOf(participants, req[s].conv) = {req[s].user}
        /\ req[t].op = "convStore"
        /\ req[t].pc = "done"
        /\ req[t].status = 400
        /\ req[t].conv \in DOMAIN conversations
        /\ RosterOf(participants, req[t].conv) = {req[t].user}

\* C22: addParticipant(C, caller, T) is let past its gate for every caller
\* with a Participant row of C, the creator or not; it is answered
\* AlreadyParticipant (400) when its look-up finds a row (C,T) and
\* UserNotFound (404) when T resolves to no user, both without a change to
\* any table; otherwise its INSERT adds the row (C,T) and nothing else, and
\* the answer is 200 only when that row was added.
C22_AddParticipant ==
    [][\A s \in Slots :
          /\ (Starts(s) /\ req'[s].op = "addParticipant"
              /\ HasRow(req'[s].conv, req'[s].user))
             => (req'[s].pc = "existing" /\ UNCHANGED db)
          /\ (StepOf(s) /\ req[s].op = "addParticipant" /\ req[s].pc = "existing")
             => (/\ UNCHANGED db
                 /\ IF HasRow(req[s].conv, req[s].target)
                    THEN /\ req'[s].pc = "done"
                         /\ req'[s].status = 400
                         /\ req'[s].message = "User is already a participant"
                    ELSE req'[s].pc = "user")
          /\ (StepOf(s) /\ req[s].op = "addParticipant" /\ req[s].pc = "user")
             => (/\ UNCHANGED db
                 /\ IF req[s].target \notin Users
                    THEN /\ req'[s].pc = "done"
                         /\ req'[s].status = 404
                         /\ req'[s].message = "User not found"
                    ELSE req'[s].pc = "insert")
          /\ (StepOf(s) /\ req[s].op = "addParticipant" /\ req[s].pc = "insert")
             => (/\ UNCHANGED <<conversations, messages>>
                 /\ req'[s].pc = "done"
                 /\ IF HasRow(req[s].conv, req[s].target)
                       \/ req[s].conv \notin DOMAIN conversations
                    THEN req'[s].status # 200 /\ participants' = participants
                    ELSE /\ req'[s].status = 200
                         /\ \E p \in participants' \ participants :
                               /\ p.conversationId = req[s].conv
                               /\ p.userId = req[s].target
                               /\ participants' = participants \cup {p})
          /\ (StepOf(s) /\ req[s].op = "addParticipant" /\ req'[s].pc = "done"
              /\ req'[s].status \in {400, 404})
             => UNCHANGED db]_vars

\* a participant who is not the creator added a user, and the next request to
\* add the same user was answered AlreadyParticipant
C22_Witness ==
    \E s, t \in Slots :
        /\ req[s].op = "addParticipant" /\ req[s].pc = "done" /\ req[s].status = 200
        /\ req[s].conv \in DOMAIN conversations
        /\ conversations[req[s].conv].createdBy # req[s].user
        /\ Cardinality(ParticipantRows(req[s].conv, req[s].target)) = 1
        /\ req[t].op = "addParticipant" /\ req[t].pc = "done" /\ req[t].status = 400
        /\ req[t].conv = req[s].conv /\ req[t].target = req[s].target

\* C23: removeParticipant asks nothing of the target: a caller with a
\* Participant row of C is let past the gate whoever the target is; the
\* look-up then loads the row (C,T) whenever there is one, be T the caller,
\* another participant or the creator of C; and the DELETE removes the loaded
\* row and no other row, conversation or message, and is answered 200.
C23_RemoveAnyParticipant ==
    [][\A s \in Slots :
          /\ (Starts(s) /\ req'[s].op = "removeParticipant"
              /\ HasRow(req'[s].conv, req'[s].user))
             => (req'[s].pc = "find" /\ UNCHANGED db)
          /\ (StepOf(s) /\ req[s].op = "removeParticipant" /\ req[s].pc = "find"
              /\ HasRow(req[s].conv, req[s].target))
             => (/\ UNCHANGED db
                 /\ req'[s].pc = "delete"
                 /\ \E p \in ParticipantRows(req[s].conv, req[s].target) :
                       req'[s].row = p.id)
          /\ (StepOf(s) /\ req[s].op = "removeParticipant" /\ req[s].pc = "delete")
             => (/\ UNCHANGED <<conversations, messages>>
                 /\ req'[s].pc = "done"
                 /\ req'[s].status = 200
                 /\ participants' \subseteq participants
                 /\ Cardinality(participants \ participants') <= 1
                 /\ \A p \in participants :
                       p \notin participants'
                       <=> (/\ p.id = req[s].row
                            /\ p.conversationId = req[s].conv
                            /\ p.userId = req[s].target))]_vars

\* a participant who is not the creator removed the creator's row and kept
\* their own
C23_Witness ==
    \E s \in Slots :
        /\ req[s].op = "removeParticipant" /\ req[s].pc = "done" /\ req[s].status = 200
        /\ req[s].conv \in DOMAIN conversations
        /\ conversations[req[s].conv].createdBy = req[s].target
        /\ req[s].user # req[s].target
        /\ ~ HasRow(req[s].conv, req[s].target)
        /\ HasRow(req[s].conv, req[s].user)

\* The handlers that write a message or a conversation after it was created,
\* on a store that holds a thread.
NextIdentity ==
    \E s \in Slots :
        \/ MsgStore(s)
        \/ MsgUpdate(s)
        \/ MsgDestroy(s)
        \/ ConvUpdate(s)
        \/ ConvDestroy(s)

SpecIdentity == InitThread /\ [][NextIdentity]_vars

\* C24: no step changes the conversationId or the author of a message that
\* stays in the table, and its replyToId either stays or becomes null in the
\* step that deletes its target; no step changes the creator of a
\* conversation that stays in the table; a message is inserted with the
\* conversation, author and target of its request; the save of a message
\* update changes at most content and edited-at of that one message, and the
\* save of a conversation update at most name and description of that one
\* conversation.
C24_IdentityImmutable ==
    [][/\ \A m \in DOMAIN messages \cap DOMAIN messages' :
             /\ messages'[m].conversationId = messages[m].conversationId
             /\ messages'[m].userId = messages[m].userId
             /\ \/ messages'[m].replyToId = messages[m].replyToId
                \/ /\ messages'[m].replyToId = NULL
                   /\ messages[m].replyToId \in DOMAIN messages
                   /\ messages[m].replyToId \notin DOMAIN messages'
       /\ \A c \in DOMAIN conversations \cap DOMAIN conversations' :
             conversations'[c].createdBy = conversations[c].createdBy
       /\ \A s \in Slots :
             /\ (StepOf(s) /\ req[s].op = "msgStore" /\ DOMAIN messages' # DOMAIN messages)
                => \E m \in DOMAIN messages' \ DOMAIN messages :
                      /\ DOMAIN messages' = DOMAIN messages \cup {m}
                      /\ messages'[m].conversationId = req[s].conv
                      /\ messages'[m].userId = req[s].user
                      /\ messages'[m].replyToId = req[s].reply
             /\ (StepOf(s) /\ req[s].op = "msgUpdate" /\ req[s].pc = "save")
                => (/\ UNCHANGED <<conversations, participants>>
                    /\ DOMAIN messages' = DOMAIN messages
                    /\ \A m \in DOMAIN messages :
                          IF m = req[s].msg
                          THEN [messages'[m] EXCEPT !.content = messages[m].content,
                                                    !.editedAt = messages[m].editedAt]
                               = messages[m]
                          ELSE messages'[m] = messages[m])
             /\ (StepOf(s) /\ req[s].op = "convUpdate" /\ req[s].pc = "save")
                => (/\ UNCHANGED <<messages, participants>>
                    /\ DOMAIN conversations' = DOMAIN conversations
                    /\ \A c \in DOMAIN conversations :
                          IF c = req[s].conv
                          THEN [conversations'[c] EXCEPT
                                   !.name = conversations[c].name,
                                   !.description = conversations[c].description]
                               = conversations[c]
                          ELSE conversations'[c] = conversations[c])]_vars

\* message 2 was edited and lost its target, conversation 1 was renamed: the
\* message is still of conversation 1 and by user 2, the conversation still
\* created by user 1
C24_Witness ==
    /\ 1 \notin DOMAIN messages
    /\ 2 \in DOMAIN messages
    /\ messages[2].content = "edit"
    /\ messages[2].editedAt # NULL
    /\ messages[2].replyToId = NULL
    /\ messages[2].conversationId = 1
    /\ messages[2].userId = 2
    /\ 1 \in DOMAIN conversations
    /\ conversations[1].name = "edit"
    /\ conversations[1].createdBy = 1

\* The token handlers, the registered users each holding one token.
InitAuth ==
    /\ SignedUp
    /\ conversations = << >>
    /\ participants = {}
    /\ messages = << >>
    /\ convSeq = 0
    /\ msgSeq = 0
    /\ req = [s \in Slots |-> Idle]
    /\ started = 0

NextAuth ==
    \E s \in Slots :
        \/ Register(s)
        \/ Login(s)
        \/ Refresh(s)
        \/ Logout(s)
        \/ Guest(s)

SpecAuth == InitAuth /\ [][NextAuth]_vars

\* the tokens of user u in the table
TokensOf(rows, u) == {t \in rows : t.userId = u}

\* the step inserts one token, a new one of user u, and removes none
IssuesOne(u) ==
    \E t \in tokens' \ tokens :
        /\ tokens' = tokens \cup {t}
        /\ t.userId = u
        /\ \A o \in tokens : o.id # t.id

\* C25: a token row leaves the table only in the delete step of a logout or a
\* refresh, and then it is the one row of the token the request presented;
\* every other token, of the same user or of another, stays.  Refresh first
\* inserts its new token, the presented one still in place, and deletes the
\* presented one in a later step, keeping the new one.  Register, login,
\* refresh and guest insert exactly one token each, in one step, and no other
\* step inserts a token; the tokens of a user accumulate.
C25_PerTokenRevocation ==
    [][\A s \in Slots :
          /\ (StepOf(s) /\ tokens \ tokens' # {})
             => (/\ req[s].op \in {"logout", "refresh"}
                 /\ req[s].pc = "delete"
                 /\ tokens \ tokens' = TokenRows(req[s].token)
                 /\ Cardinality(tokens \ tokens') = 1)
          /\ (StepOf(s) /\ req[s].op \in {"logout", "refresh"} /\ req[s].pc = "delete")
             => (/\ tokens' = tokens \ TokenRows(req[s].token)
                 /\ req'[s].pc = "done"
                 /\ req'[s].status = IF req[s].op = "logout" THEN 204 ELSE 200)
          /\ (StepOf(s) /\ req[s].op = "refresh" /\ req[s].pc = "create")
             => (/\ IssuesOne(req[s].user)
                 /\ req'[s].pc = "delete"
                 /\ req'[s].issued # req[s].token
                 /\ \E t \in tokens' : t.id = req'[s].issued)
          /\ (StepOf(s) /\ req[s].op = "refresh" /\ req[s].pc = "delete")
             => (/\ \E t \in tokens' : t.id = req[s].issued
                 /\ req'[s].issued = req[s].issued)
          /\ (StepOf(s) /\ req[s].op \in {"register", "guest"} /\ req[s].pc = "token")
             => (/\ IssuesOne(req[s].user)
                 /\ req'[s].pc = "done"
                 /\ req'[s].status = 201)
          /\ (StepOf(s) /\ req[s].op = "login" /\ req[s].pc = "create")
             => (/\ IssuesOne(req[s].user)
                 /\ req'[s].pc = "done"
                 /\ req'[s].status = 200)
          /\ (StepOf(s) /\ tokens' \ tokens # {})
             => (/\ req[s].op \in {"register", "login", "refresh", "guest"}
                 /\ req[s].pc \in {"create", "token"})
          /\ (Starts(s) /\ req'[s].op \in {"register", "login", "refresh", "guest", "logout"})
             => tokens' = tokens]_vars

\* a user who held three tokens logged out with one of them and holds the
\* other two
C25_Witness ==
    \E s \in Slots :
        /\ req[s].op = "logout" /\ req[s].pc = "done" /\ req[s].status = 204
        /\ TokenRows(req[s].token) = {}
        /\ Cardinality(TokensOf(tokens, req[s].user)) >= 2
        /\ \E u \in DOMAIN users : u # req[s].user /\ TokensOf(tokens, u) # {}

\* Every handler that can refuse a request on an existing conversation or
\* message, on a store that holds a thread.
NextRefusals ==
    \E s \in Slots :
        \/ MsgStore(s)
        \/ MsgShow(s)
        \/ MsgUpdate(s)
        \/ MsgDestroy(s)
        \/ AddParticipant(s)
        \/ RemoveParticipant(s)
        \/ ConvShow(s)
        \/ ConvUpdate(s)
        \/ ConvDestroy(s)

SpecRefusals == InitThread /\ [][NextRefusals]_vars

Refusing ==
    {"msgStore", "msgShow", "msgUpdate", "msgDestroy", "addParticipant",
     "removeParticipant", "convShow", "convUpdate", "convDestroy"}

\* the statuses of the refusals and of the successful answers
Refusals == {400, 403, 404}
Successes == {200, 201, 204}

\* C26: a step of one of these requests changes a table only if it is the
\* step that answers the request with success; so a request that is answered
\* 400, 403 or 404 has changed no conversation, Participant row or message in
\* any of its steps.
C26_RefusalChangesNothing ==
    [][\A s \in Slots :
          /\ (/\ StepOf(s)
              /\ (IF req[s].pc = "done" THEN req'[s].op ELSE req[s].op) \in Refusing
              /\ ~ (req'[s].pc = "done" /\ req'[s].status \in Successes))
             => UNCHANGED <<conversations, participants, messages>>
          /\ (/\ StepOf(s)
              /\ req'[s].op \in Refusing
              /\ req'[s].pc = "done"
              /\ req'[s].status \in Refusals)
             => UNCHANGED db]_vars

\* one request refused with 403 and one with 404, the thread as it was
C26_Witness ==
    \E s, t \in Slots :
        /\ req[s].op \in Refusing /\ req[s].pc = "done" /\ req[s].status = 403
        /\ req[t].op \in Refusing /\ req[t].pc = "done" /\ req[t].status \in {400, 404}
        /\ messages = (1 :> NewMessage(1, 1, "hello", NULL, 1))
                      @@ (2 :> NewMessage(1, 2, "hello", 1, 2))
        /\ TwoRooms

\* C27: in every reachable state each Participant row references a
\* conversation and a user that exist and each message references a
\* conversation and an author that exist; an INSERT of a request whose gate
\* passed before the conversation was deleted is refused, not stored.
C27_ReferentialIntegrity ==
    /\ \A p \in participants :
          p.conversationId \in DOMAIN conversations /\ p.userId \in DOMAIN users
    /\ \A m \in DOMAIN messages :
          /\ messages[m].conversationId \in DOMAIN conversations
          /\ messages[m].userId \in DOMAIN users

\* a message create and an add, both let past the gate, met a conversation
\* that was deleted meanwhile: one or the other was refused at its INSERT
C27_Witness ==
    \E s \in Slots :
        /\ req[s].op \in {"msgStore", "addParticipant"}
        /\ req[s].pc = "done"
        /\ req[s].status = 500
        /\ req[s].conv \notin DOMAIN conversations
        /\ req[s].conv <= convSeq
        /\ \A p \in participants : p.conversationId # req[s].conv
        /\ \A m \in DOMAIN messages : messages[m].conversationId # req[s].conv

\* the messages that the messages of S reply to
ReplyTargets(S) == {messages[m].replyToId : m \in S \cap DOMAIN messages} \ {NULL}

\* the messages reached from S by following replyTo at most k times
RECURSIVE ReplyChain(_, _)
ReplyChain(S, k) ==
    IF k = 0 \/ S = {} THEN {} ELSE ReplyTargets(S) \cup ReplyChain(ReplyTargets(S), k - 1)

\* no chain of replyTo references returns to the message it starts from
ReplyAcyclic == \A m \in DOMAIN messages : m \notin ReplyChain({m}, MaxMsgs)

NextOwner ==
    \E s \in Slots :
        \/ ConvShow(s)
        \/ ConvUpdate(s)
        \/ ConvDestroy(s)
        \/ MsgIndex(s)
        \/ MsgStore(s)
        \/ RemoveParticipant(s)

SpecOwner == InitRooms /\ [][NextOwner]_vars

\* user u created conversation c and has no Participant row of it
RowlessCreator(c, u) ==
    /\ c \in DOMAIN conversations
    /\ conversations[c].createdBy = u
    /\ ~ HasRow(c, u)

C30_OneRemoveSucceeds ==
    [][\A s \in Slots :
          (/\ StepOf(s)
           /\ req[s].op = "removeParticipant"
           /\ req[s].pc = "delete"
           /\ req'[s].status = 200)
          => (/\ \E p \in participants : p.id = req[s].row
              /\ \A p \in participants' : p.id # req[s].row)]_vars

====
